---- MODULE Spec2Model ----
(***************************************************************************)
(* MASTGraphManager (rl_coach/graph_managers/mast_graph_manager.py):       *)
(* the actor, evaluator and trainer loops of a distributed run, each on    *)
(* its own MASTGraphManager instance, coordinating only through the data   *)
(* store (published policy version, episode channel, end-of-run signal).   *)
(***************************************************************************)
EXTENDS Integers, Sequences, FiniteSets, TLC

\* ------------------------------------------------------------------ bounds
NumActors == 2
MaxActs == 3
MaxEpLen == 2
MaxQueue == 2
MaxTarget == 2
MaxPublishEvery == 2
MaxTrainSteps == 2
MaxEvalCalls == 2
MaxEvalBudget == 2

\* ------------------------------------------------------- program constants
\* actor(): "if self.current_step_counter[EnvironmentSteps] % 200 == 0"
PolicyCheckInterval == 200

Actors == 1..NumActors
\* environment steps one act(EnvironmentSteps(1)) call may consume
StepIncs == {1, PolicyCheckInterval}
\* total_steps_to_act handed to actor()
ActorBudgets == {0, 1, 2 * PolicyCheckInterval + 1}
\* total_steps_to_train handed to trainer()
TrainerBudgets == {0, MaxTrainSteps}
\* total_steps_to_act handed to evaluate()
EvalBudgets == {0, MaxEvalBudget}
\* agent_params.algorithm.num_consecutive_playing_steps.num_steps
FetchTargets == 0..MaxTarget
\* agent_params.algorithm.mast_trainer_publish_policy_every_num_fetched_steps
PublishEverys == 0..MaxPublishEvery

VARIABLES
    \* ---- data store
    store_version,        \* identifier of the newest PolicyVersion saved (0: none yet)
    queue,                \* episode channel between the actors and the trainer
    end_of_policies,      \* the end-of-run signal
    \* ---- run configuration
    num_consecutive_playing_steps,
    publish_every,
    \* ---- trainer instance
    t_pc, t_phase, t_count_end, t_training_steps, t_env_steps,
    t_latest_policy_id, t_last_publish_step, t_memory_backend,
    t_total_steps_counter, t_current_episode, t_is_complete, t_memory,
    t_steps,
    t_checkpoints,        \* calls of occasionally_save_checkpoint()
    t_ignored,            \* 'Ignoring off-policy data' entries logged
    t_fetch_entry,        \* history: counters when the current fetch phase began
    t_accepted_since_save,\* history: episodes accepted since the last save_policy
    \* ---- actor instances (one per task index)
    a_pc, a_phase, a_count_end, a_env_steps, a_latest_policy_id,
    a_agent_policy_id, a_loaded, a_ep_len, a_ep_policy, a_acts,
    a_last_attempt,       \* history: step counter at the last attempt_load_policy
    \* ---- evaluator instance
    e_pc, e_phase, e_saved_phase, e_count_end, e_env_steps, e_latest_policy_id,
    e_agent_policy_id, e_loaded, e_evaluate_only,
    e_success,            \* what should_stop() answers
    e_result,             \* what the last evaluate() call returned
    e_flushed,            \* flush_finished() has run
    e_calls,
    e_entry               \* history: run-phase when evaluate was called, and when
                          \* the current iteration began

storeVars == <<store_version, queue, end_of_policies>>
cfgVars == <<num_consecutive_playing_steps, publish_every>>
trainerVars == <<t_pc, t_phase, t_count_end, t_training_steps, t_env_steps,
                 t_latest_policy_id, t_last_publish_step, t_memory_backend,
                 t_total_steps_counter, t_current_episode, t_is_complete,
                 t_memory, t_steps, t_checkpoints, t_ignored,
                 t_fetch_entry,
                 t_accepted_since_save>>
actorVars == <<a_pc, a_phase, a_count_end, a_env_steps, a_latest_policy_id,
               a_agent_policy_id, a_loaded, a_ep_len, a_ep_policy, a_acts,
               a_last_attempt>>
evalVars == <<e_pc, e_phase, e_saved_phase, e_count_end, e_env_steps,
              e_latest_policy_id, e_agent_policy_id, e_loaded, e_evaluate_only,
              e_success, e_result, e_flushed, e_calls, e_entry>>
vars == <<storeVars, cfgVars, trainerVars, actorVars, evalVars>>

\* ----------------------------------------------------------------- helpers
RECURSIVE SumLen(_)
SumLen(s) == IF s = <<>> THEN 0 ELSE Head(s).length + SumLen(Tail(s))

\* Episode as the trainer sees it: task_id, policy_id and length()
Episode(task, policy, len) == [task_id |-> task, policy_id |-> policy, length |-> len]

\* data_store.attempt_load_policy(self): a newer PolicyVersion than the one
\* loaded is available
AttemptLoadPolicy(loaded) == store_version > loaded

\* self.sync(): the policy the role holds after refreshing from the store
Sync(loaded) == IF store_version > loaded THEN store_version ELSE loaded

\* faulty variant: the id is assigned, not incremented
NextPolicyId_Assigned(id) == 1

\* self.latest_policy_id += 1
NextPolicyId(id) == id + 1

\* ------------------------------------------------------------------- Init
\* The state after construction (__init__: latest_policy_id = 0,
\* last_publish_step = 0) of a run configured with a fetch target among
\* `targets` and a publish threshold among `thresholds`, and with
\* task_parameters.evaluate_only set or not as `evaluate_only` says; the
\* actors of `live` are still to be started, the other actors have nothing
\* to do.
InitWith(targets, thresholds, live, evaluate_only) ==
    /\ store_version = 0
    /\ queue = <<>>
    /\ end_of_policies = FALSE
    /\ num_consecutive_playing_steps \in targets
    /\ publish_every \in thresholds
    /\ t_pc = "idle"
    /\ t_phase = "UNDEFINED"
    /\ t_count_end = 0
    /\ t_training_steps = 0
    /\ t_env_steps = 0
    /\ t_latest_policy_id = 0
    /\ t_last_publish_step = 0
    /\ t_memory_backend = FALSE
    /\ t_total_steps_counter = 0
    /\ t_current_episode = 0
    /\ t_is_complete = FALSE
    /\ t_memory = <<>>
    /\ t_steps = 0
    /\ t_checkpoints = 0
    /\ t_ignored = 0
    /\ t_fetch_entry = [total |-> 0, env |-> 0, mem |-> 0]
    /\ t_accepted_since_save = 0
    /\ a_pc = [a \in Actors |-> IF a \in live THEN "idle" ELSE "done"]
    /\ a_phase = [a \in Actors |-> "UNDEFINED"]
    /\ a_count_end = [a \in Actors |-> 0]
    /\ a_env_steps = [a \in Actors |-> 0]
    /\ a_latest_policy_id = [a \in Actors |-> 0]
    /\ a_agent_policy_id = [a \in Actors |-> 0]
    /\ a_loaded = [a \in Actors |-> 0]
    /\ a_ep_len = [a \in Actors |-> 0]
    /\ a_ep_policy = [a \in Actors |-> 0]
    /\ a_acts = [a \in Actors |-> 0]
    /\ a_last_attempt = [a \in Actors |-> 0]
    /\ e_pc = "idle"
    /\ e_phase = "UNDEFINED"
    /\ e_saved_phase = "UNDEFINED"
    /\ e_count_end = 0
    /\ e_env_steps = 0
    /\ e_latest_policy_id = 0
    /\ e_agent_policy_id = 0
    /\ e_loaded = 0
    /\ e_evaluate_only \in evaluate_only
    /\ e_success = FALSE
    /\ e_result = "none"
    /\ e_flushed = FALSE
    /\ e_calls = 0
    /\ e_entry = [call |-> "UNDEFINED", iter |-> "UNDEFINED"]

\* ------------------------------------------------------------------ actor
\* actor(), up to the first loop test: sync, phase_context(TRAIN), reset,
\* count_end
ActorStart(a) ==
    /\ a_pc[a] = "idle"
    /\ \E budget \in ActorBudgets :
         /\ a_loaded' = [a_loaded EXCEPT ![a] = Sync(a_loaded[a])]
         /\ IF budget > 0
            THEN /\ a_phase' = [a_phase EXCEPT ![a] = "TRAIN"]
                 /\ a_ep_len' = [a_ep_len EXCEPT ![a] = 0]
                 /\ a_count_end' = [a_count_end EXCEPT ![a] = a_env_steps[a] + budget]
                 /\ a_pc' = [a_pc EXCEPT ![a] = "loop"]
            ELSE /\ a_pc' = [a_pc EXCEPT ![a] = "done"]
                 /\ UNCHANGED <<a_phase, a_ep_len, a_count_end>>
    /\ UNCHANGED <<a_env_steps, a_latest_policy_id, a_agent_policy_id,
                   a_ep_policy, a_acts, a_last_attempt>>
    /\ UNCHANGED <<storeVars, cfgVars, trainerVars, evalVars>>

\* "self.current_step_counter[EnvironmentSteps] % 200 == 0"
RefreshDue(steps) == steps % PolicyCheckInterval = 0

\* faulty variant: the actor's while test admits the counter at count_end
ActorLoop_Inclusive(a) ==
    /\ a_pc[a] = "loop"
    /\ IF a_env_steps[a] <= a_count_end[a] /\ ~end_of_policies
       THEN /\ a_pc' = [a_pc EXCEPT ![a] =
                          IF RefreshDue(a_env_steps[a]) THEN "refresh" ELSE "act"]
            /\ UNCHANGED a_phase
       ELSE /\ a_pc' = [a_pc EXCEPT ![a] = "done"]
            /\ a_phase' = [a_phase EXCEPT ![a] = "UNDEFINED"]
    /\ UNCHANGED <<a_count_end, a_env_steps, a_latest_policy_id,
                   a_agent_policy_id, a_loaded, a_ep_len, a_ep_policy, a_acts,
                   a_last_attempt>>
    /\ UNCHANGED <<storeVars, cfgVars, trainerVars, evalVars>>

\* faulty variant: an actor leaving its loop publishes the episode it has in
\* flight
ActorLoop_FlushesOnBreak(a) ==
    /\ a_pc[a] = "loop"
    /\ IF a_env_steps[a] < a_count_end[a] /\ ~end_of_policies
       THEN /\ a_pc' = [a_pc EXCEPT ![a] =
                          IF RefreshDue(a_env_steps[a]) THEN "refresh" ELSE "act"]
            /\ UNCHANGED <<a_phase, a_ep_len, queue>>
       ELSE /\ a_pc' = [a_pc EXCEPT ![a] = "done"]
            /\ a_phase' = [a_phase EXCEPT ![a] = "UNDEFINED"]
            /\ IF a_ep_len[a] > 0 /\ Len(queue) < MaxQueue
               THEN /\ queue' = Append(queue, Episode(a, a_ep_policy[a], a_ep_len[a]))
                    /\ a_ep_len' = [a_ep_len EXCEPT ![a] = 0]
               ELSE UNCHANGED <<a_ep_len, queue>>
    /\ UNCHANGED <<a_count_end, a_env_steps, a_latest_policy_id,
                   a_agent_policy_id, a_loaded, a_ep_policy, a_acts,
                   a_last_attempt>>
    /\ UNCHANGED <<store_version, end_of_policies, cfgVars, trainerVars, evalVars>>

\* the while test, the end_of_policies() break and the interval test
ActorLoop(a) ==
    /\ a_pc[a] = "loop"
    /\ IF a_env_steps[a] < a_count_end[a] /\ ~end_of_policies
       THEN /\ a_pc' = [a_pc EXCEPT ![a] =
                          IF RefreshDue(a_env_steps[a]) THEN "refresh" ELSE "act"]
            /\ UNCHANGED a_phase
       ELSE /\ a_pc' = [a_pc EXCEPT ![a] = "done"]
            /\ a_phase' = [a_phase EXCEPT ![a] = "UNDEFINED"]
    /\ UNCHANGED <<a_count_end, a_env_steps, a_latest_policy_id,
                   a_agent_policy_id, a_loaded, a_ep_len, a_ep_policy, a_acts,
                   a_last_attempt>>
    /\ UNCHANGED <<storeVars, cfgVars, trainerVars, evalVars>>

\* faulty variant: an actor that has loaded a policy saves it back to the
\* store under its own policy id
ActorRefresh_Republishes(a) ==
    /\ a_pc[a] = "refresh"
    /\ IF AttemptLoadPolicy(a_loaded[a])
       THEN /\ a_loaded' = [a_loaded EXCEPT ![a] = store_version]
            /\ a_latest_policy_id' =
                 [a_latest_policy_id EXCEPT ![a] = NextPolicyId(a_latest_policy_id[a])]
            /\ a_agent_policy_id' =
                 [a_agent_policy_id EXCEPT ![a] = a_latest_policy_id'[a]]
            /\ store_version' = store_version + 1
       ELSE UNCHANGED <<a_loaded, a_latest_policy_id, a_agent_policy_id, store_version>>
    /\ a_last_attempt' = [a_last_attempt EXCEPT ![a] = a_env_steps[a]]
    /\ a_pc' = [a_pc EXCEPT ![a] = "act"]
    /\ UNCHANGED <<a_phase, a_count_end, a_env_steps, a_ep_len, a_ep_policy, a_acts>>
    /\ UNCHANGED <<queue, end_of_policies, cfgVars, trainerVars, evalVars>>

\* the periodic policy refresh: attempt_load_policy and, on success, the
\* new policy id
ActorRefresh(a) ==
    /\ a_pc[a] = "refresh"
    /\ IF AttemptLoadPolicy(a_loaded[a])
       THEN /\ a_loaded' = [a_loaded EXCEPT ![a] = store_version]
            /\ a_latest_policy_id' =
                 [a_latest_policy_id EXCEPT ![a] = NextPolicyId(a_latest_policy_id[a])]
            /\ a_agent_policy_id' =
                 [a_agent_policy_id EXCEPT ![a] = a_latest_policy_id'[a]]
       ELSE UNCHANGED <<a_loaded, a_latest_policy_id, a_agent_policy_id>>
    /\ a_last_attempt' = [a_last_attempt EXCEPT ![a] = a_env_steps[a]]
    /\ a_pc' = [a_pc EXCEPT ![a] = "act"]
    /\ UNCHANGED <<a_phase, a_count_end, a_env_steps, a_ep_len, a_ep_policy, a_acts>>
    /\ UNCHANGED <<storeVars, cfgVars, trainerVars, evalVars>>

\* the policy_id an episode of actor a may be published under: the agent's
\* policy_id when the episode started, or the one it has at the episode
\* boundary
EpisodeTags(a, started) == {started, a_agent_policy_id[a]}

\* self.act(EnvironmentSteps(1)): one transition of the running episode; when
\* the episode ends it is published to the episode channel
ActorAct(a) ==
    /\ a_pc[a] = "act"
    /\ a_acts[a] < MaxActs
    /\ a_acts' = [a_acts EXCEPT ![a] = @ + 1]
    /\ \E inc \in StepIncs : a_env_steps' = [a_env_steps EXCEPT ![a] = @ + inc]
    /\ LET started == IF a_ep_len[a] = 0 THEN a_agent_policy_id[a] ELSE a_ep_policy[a]
           len == a_ep_len[a] + 1
       IN  \/ /\ len < MaxEpLen
              /\ a_ep_len' = [a_ep_len EXCEPT ![a] = len]
              /\ a_ep_policy' = [a_ep_policy EXCEPT ![a] = started]
              /\ UNCHANGED queue
           \/ /\ Len(queue) < MaxQueue
              /\ \E tag \in EpisodeTags(a, started) :
                   queue' = Append(queue, Episode(a, tag, len))
              /\ a_ep_len' = [a_ep_len EXCEPT ![a] = 0]
              /\ a_ep_policy' = [a_ep_policy EXCEPT ![a] = started]
    /\ a_pc' = [a_pc EXCEPT ![a] = "loop"]
    /\ UNCHANGED <<a_phase, a_count_end, a_latest_policy_id, a_agent_policy_id, a_loaded,
                   a_last_attempt>>
    /\ UNCHANGED <<store_version, end_of_policies, cfgVars, trainerVars, evalVars>>

\* ---------------------------------------------------------------- trainer
\* trainer(), up to the first loop test: sync, setup_memory_backend,
\* phase_context(TRAIN), reset, count_end
TrainerStart ==
    /\ t_pc = "idle"
    /\ t_memory_backend' = TRUE
    /\ \E budget \in TrainerBudgets :
         IF budget > 0
         THEN /\ t_phase' = "TRAIN"
              /\ t_count_end' = t_training_steps + budget
              /\ t_pc' = "loop"
         ELSE /\ t_pc' = "done"
              /\ UNCHANGED <<t_phase, t_count_end>>
    /\ UNCHANGED <<t_training_steps, t_env_steps, t_latest_policy_id,
                   t_last_publish_step, t_total_steps_counter, t_current_episode,
                   t_is_complete, t_memory, t_steps, t_checkpoints, t_ignored,
                   t_fetch_entry,
                   t_accepted_since_save>>
    /\ UNCHANGED <<storeVars, cfgVars, actorVars, evalVars>>

\* "while self.current_step_counter < count_end", then entry of
\* fetch_from_worker: steps = 0
TrainerLoop ==
    /\ t_pc = "loop"
    /\ IF t_training_steps < t_count_end
       THEN /\ t_pc' = IF t_memory_backend THEN "fetch" ELSE "train"
            /\ t_steps' = 0
            /\ t_fetch_entry' = [total |-> t_total_steps_counter, env |-> t_env_steps,
                                 mem |-> Len(t_memory)]
            /\ UNCHANGED t_phase
       ELSE /\ t_pc' = "done"
            /\ t_phase' = "UNDEFINED"
            /\ UNCHANGED <<t_steps, t_fetch_entry>>
    /\ UNCHANGED <<t_count_end, t_training_steps, t_env_steps, t_latest_policy_id,
                   t_last_publish_step, t_memory_backend, t_total_steps_counter,
                   t_current_episode, t_is_complete, t_memory, t_checkpoints, t_ignored,
                   t_accepted_since_save>>
    /\ UNCHANGED <<storeVars, cfgVars, actorVars, evalVars>>

\* faulty variant: the fetch loop runs once more after the target is reached
FetchMore_Inclusive == t_steps <= num_consecutive_playing_steps

\* faulty variant: the fetch loop's comparison is inverted
FetchMore_Inverted == t_steps > num_consecutive_playing_steps

\* "while steps < num_consecutive_playing_steps.num_steps"
FetchMore == t_steps < num_consecutive_playing_steps

\* faulty variant: no episode is taken for off-policy
OffPolicy_Never(episode) == FALSE

\* the staleness test of fetch_from_worker
OffPolicy(episode) == episode.policy_id # t_latest_policy_id

\* faulty variant: an off-policy episode is discarded only after its length was
\* added to the fetch accumulator
FetchEpisode_CountsStale ==
    /\ t_pc = "fetch"
    /\ t_steps < num_consecutive_playing_steps
    /\ queue # <<>>
    /\ LET episode == Head(queue)
       IN  /\ queue' = Tail(queue)
           /\ t_steps' = t_steps + episode.length
           /\ IF episode.policy_id # t_latest_policy_id
              THEN /\ t_ignored' = t_ignored + 1
                   /\ UNCHANGED <<t_memory, t_total_steps_counter,
                                  t_current_episode, t_is_complete, t_env_steps,
                                  t_accepted_since_save>>
              ELSE /\ t_memory' = Append(t_memory, episode)
                   /\ t_total_steps_counter' = t_total_steps_counter + episode.length
                   /\ t_current_episode' = t_current_episode + 1
                   /\ t_is_complete' = TRUE
                   /\ t_env_steps' = t_total_steps_counter'
                   /\ t_accepted_since_save' = t_accepted_since_save + 1
                   /\ UNCHANGED t_ignored
    /\ UNCHANGED <<t_pc, t_phase, t_count_end, t_training_steps, t_latest_policy_id,
                   t_last_publish_step, t_memory_backend, t_checkpoints, t_fetch_entry>>
    /\ UNCHANGED <<store_version, end_of_policies, cfgVars, actorVars, evalVars>>

\* faulty variant: the EnvironmentSteps counter is assigned the length of the
\* accepted episode, not the agent's total of fetched steps
FetchEpisode_CounterFromEpisode ==
    /\ t_pc = "fetch"
    /\ FetchMore
    /\ queue # <<>>
    /\ LET episode == Head(queue)
       IN  /\ queue' = Tail(queue)
           /\ IF OffPolicy(episode)
              THEN /\ t_ignored' = t_ignored + 1
                   /\ UNCHANGED <<t_steps, t_memory, t_total_steps_counter,
                                  t_current_episode, t_is_complete, t_env_steps,
                                  t_accepted_since_save>>
              ELSE /\ t_steps' = t_steps + episode.length
                   /\ t_memory' = Append(t_memory, episode)
                   /\ t_total_steps_counter' = t_total_steps_counter + episode.length
                   /\ t_current_episode' = t_current_episode + 1
                   /\ t_is_complete' = TRUE
                   /\ t_env_steps' = episode.length
                   /\ t_accepted_since_save' = t_accepted_since_save + 1
                   /\ UNCHANGED t_ignored
    /\ UNCHANGED <<t_pc, t_phase, t_count_end, t_training_steps, t_latest_policy_id,
                   t_last_publish_step, t_memory_backend, t_checkpoints, t_fetch_entry>>
    /\ UNCHANGED <<store_version, end_of_policies, cfgVars, actorVars, evalVars>>

\* one pass of the fetch loop: take the next episode of the channel, discard
\* it if off-policy, else store and count it
FetchEpisode ==
    /\ t_pc = "fetch"
    /\ FetchMore
    /\ queue # <<>>
    /\ LET episode == Head(queue)
       IN  /\ queue' = Tail(queue)
           /\ IF OffPolicy(episode)
              THEN /\ t_ignored' = t_ignored + 1
                   /\ UNCHANGED <<t_steps, t_memory, t_total_steps_counter,
                                  t_current_episode, t_is_complete, t_env_steps,
                                  t_accepted_since_save>>
              ELSE /\ t_steps' = t_steps + episode.length
                   /\ t_memory' = Append(t_memory, episode)
                   /\ t_total_steps_counter' = t_total_steps_counter + episode.length
                   /\ t_current_episode' = t_current_episode + 1
                   /\ t_is_complete' = TRUE
                   /\ t_env_steps' = t_total_steps_counter'
                   /\ t_accepted_since_save' = t_accepted_since_save + 1
                   /\ UNCHANGED t_ignored
    /\ UNCHANGED <<t_pc, t_phase, t_count_end, t_training_steps, t_latest_policy_id,
                   t_last_publish_step, t_memory_backend, t_checkpoints, t_fetch_entry>>
    /\ UNCHANGED <<store_version, end_of_policies, cfgVars, actorVars, evalVars>>

\* the fetch loop's exit
FetchDone ==
    /\ t_pc = "fetch"
    /\ ~FetchMore
    /\ t_pc' = "train"
    /\ UNCHANGED <<t_phase, t_count_end, t_training_steps, t_env_steps,
                   t_latest_policy_id, t_last_publish_step, t_memory_backend,
                   t_total_steps_counter, t_current_episode, t_is_complete,
                   t_memory, t_steps, t_checkpoints, t_ignored,
                   t_fetch_entry,
                   t_accepted_since_save>>
    /\ UNCHANGED <<storeVars, cfgVars, actorVars, evalVars>>

\* faulty variant: the publish test is strict
PublishDue_Strict ==
    (t_total_steps_counter - t_last_publish_step) > publish_every

\* the publish test of trainer()
PublishDue ==
    (t_total_steps_counter - t_last_publish_step) >= publish_every

\* faulty variant: latest_policy_id is incremented after every training
\* step, before the publish test
TrainerTrain_CountsEveryStep ==
    /\ t_pc = "train"
    /\ t_training_steps' = t_training_steps + 1
    /\ t_latest_policy_id' = NextPolicyId(t_latest_policy_id)
    /\ t_pc' = IF PublishDue THEN "save" ELSE "loop"
    /\ UNCHANGED <<t_phase, t_count_end, t_env_steps, t_last_publish_step,
                   t_memory_backend, t_total_steps_counter, t_current_episode,
                   t_is_complete, t_memory, t_steps, t_checkpoints, t_ignored,
                   t_fetch_entry,
                   t_accepted_since_save>>
    /\ UNCHANGED <<storeVars, cfgVars, actorVars, evalVars>>

\* self.train(), which counts one training step, then the publish test;
\* when due, latest_policy_id += 1 and sync()
TrainerTrain ==
    /\ t_pc = "train"
    /\ t_training_steps' = t_training_steps + 1
    /\ IF PublishDue
       THEN /\ t_latest_policy_id' = NextPolicyId(t_latest_policy_id)
            /\ t_pc' = "save"
       ELSE /\ t_pc' = "loop"
            /\ UNCHANGED t_latest_policy_id
    /\ UNCHANGED <<t_phase, t_count_end, t_env_steps, t_last_publish_step,
                   t_memory_backend, t_total_steps_counter, t_current_episode,
                   t_is_complete, t_memory, t_steps, t_checkpoints, t_ignored,
                   t_fetch_entry,
                   t_accepted_since_save>>
    /\ UNCHANGED <<storeVars, cfgVars, actorVars, evalVars>>

\* data_store.save_policy(self)
TrainerSave ==
    /\ t_pc = "save"
    /\ store_version' = t_latest_policy_id
    /\ t_accepted_since_save' = 0
    /\ t_pc' = "mark"
    /\ UNCHANGED <<t_phase, t_count_end, t_training_steps, t_env_steps,
                   t_latest_policy_id, t_last_publish_step, t_memory_backend,
                   t_total_steps_counter, t_current_episode, t_is_complete,
                   t_memory, t_steps, t_checkpoints, t_ignored,
                   t_fetch_entry>>
    /\ UNCHANGED <<queue, end_of_policies, cfgVars, actorVars, evalVars>>

\* occasionally_save_checkpoint() is called, then the watermark is set
TrainerMark ==
    /\ t_pc = "mark"
    /\ t_checkpoints' = t_checkpoints + 1
    /\ t_last_publish_step' = t_env_steps
    /\ t_pc' = "loop"
    /\ UNCHANGED <<t_phase, t_count_end, t_training_steps, t_env_steps,
                   t_latest_policy_id, t_memory_backend, t_ignored, t_total_steps_counter,
                   t_current_episode, t_is_complete, t_memory, t_steps,
                   t_fetch_entry, t_accepted_since_save>>
    /\ UNCHANGED <<storeVars, cfgVars, actorVars, evalVars>>

\* -------------------------------------------------------------- evaluator
\* evaluate(), up to the first loop test: sync, phase_context(TEST), reset,
\* count_end
EvalStart ==
    /\ e_pc \in {"idle", "done"}
    /\ e_calls < MaxEvalCalls
    /\ e_calls' = e_calls + 1
    /\ e_entry' = [e_entry EXCEPT !.call = e_phase]
    /\ e_loaded' = Sync(e_loaded)
    /\ e_result' = "none"
    /\ \E budget \in EvalBudgets :
         IF budget > 0
         THEN /\ e_saved_phase' = e_phase
              /\ e_phase' = "TEST"
              /\ e_count_end' = e_env_steps + budget
              /\ e_pc' = "loop"
         ELSE /\ e_pc' = "stop"
              /\ UNCHANGED <<e_saved_phase, e_phase, e_count_end>>
    /\ UNCHANGED <<e_env_steps, e_latest_policy_id, e_agent_policy_id,
                   e_evaluate_only, e_success, e_flushed>>
    /\ UNCHANGED <<storeVars, cfgVars, trainerVars, actorVars>>

\* the while test and the end_of_policies() break; leaving the loop leaves
\* phase_context
EvalLoop ==
    /\ e_pc = "loop"
    /\ IF e_env_steps < e_count_end /\ ~end_of_policies
       THEN /\ e_pc' = "refresh"
            /\ e_entry' = [e_entry EXCEPT !.iter = e_phase]
            /\ UNCHANGED e_phase
       ELSE /\ e_pc' = "stop"
            /\ e_phase' = e_saved_phase
            /\ UNCHANGED e_entry
    /\ UNCHANGED <<e_saved_phase, e_count_end, e_env_steps, e_latest_policy_id,
                   e_agent_policy_id, e_loaded, e_evaluate_only, e_success,
                   e_result, e_flushed, e_calls>>
    /\ UNCHANGED <<storeVars, cfgVars, trainerVars, actorVars>>

\* faulty variant: the evaluator counts a policy id for every attempt,
\* successful or not
EvalRefresh_CountsAttempts ==
    /\ e_pc = "refresh"
    /\ e_loaded' = Sync(e_loaded)
    /\ e_latest_policy_id' = NextPolicyId(e_latest_policy_id)
    /\ e_agent_policy_id' = e_latest_policy_id'
    /\ e_pc' = "episode"
    /\ UNCHANGED <<e_phase, e_saved_phase, e_count_end, e_env_steps,
                   e_evaluate_only, e_success, e_result, e_flushed, e_calls,
                   e_entry>>
    /\ UNCHANGED <<storeVars, cfgVars, trainerVars, actorVars>>

\* the policy refresh of every iteration
EvalRefresh ==
    /\ e_pc = "refresh"
    /\ IF AttemptLoadPolicy(e_loaded)
       THEN /\ e_loaded' = store_version
            /\ e_latest_policy_id' = NextPolicyId(e_latest_policy_id)
            /\ e_agent_policy_id' = e_latest_policy_id'
       ELSE UNCHANGED <<e_loaded, e_latest_policy_id, e_agent_policy_id>>
    /\ e_pc' = "episode"
    /\ UNCHANGED <<e_phase, e_saved_phase, e_count_end, e_env_steps,
                   e_evaluate_only, e_success, e_result, e_flushed, e_calls,
                   e_entry>>
    /\ UNCHANGED <<storeVars, cfgVars, trainerVars, actorVars>>

\* the phase switch of an evaluation-only worker, then
\* self.act(EnvironmentEpisodes(1)): one whole episode, after which the
\* success rate may or may not meet the stopping criterion
EvalEpisode ==
    /\ e_pc = "episode"
    /\ e_phase' = IF e_evaluate_only THEN "TEST" ELSE e_phase
    /\ \E n \in 1..MaxEpLen : e_env_steps' = e_env_steps + n
    /\ e_success' \in BOOLEAN
    /\ e_pc' = "post"
    /\ UNCHANGED <<e_saved_phase, e_count_end, e_latest_policy_id,
                   e_agent_policy_id, e_loaded, e_evaluate_only, e_result,
                   e_flushed, e_calls,
                   e_entry>>
    /\ UNCHANGED <<storeVars, cfgVars, trainerVars, actorVars>>

\* self.sync() and the phase switch after the episode
EvalPost ==
    /\ e_pc = "post"
    /\ e_loaded' = Sync(e_loaded)
    /\ e_phase' = IF e_evaluate_only THEN "TRAIN" ELSE e_phase
    /\ e_pc' = "loop"
    /\ UNCHANGED <<e_saved_phase, e_count_end, e_env_steps, e_latest_policy_id,
                   e_agent_policy_id, e_evaluate_only, e_success, e_result,
                   e_flushed, e_calls,
                   e_entry>>
    /\ UNCHANGED <<storeVars, cfgVars, trainerVars, actorVars>>

\* self.should_stop()
ShouldStop == e_success

\* faulty variant: evaluate returns True without asking should_stop()
EvalStop_Unconditional ==
    /\ e_pc = "stop"
    /\ e_result' = "true"
    /\ e_pc' = "done"
    /\ UNCHANGED <<e_phase, e_saved_phase, e_count_end, e_env_steps,
                   e_latest_policy_id, e_agent_policy_id, e_loaded,
                   e_evaluate_only, e_success, e_flushed, e_calls,
                   e_entry>>
    /\ UNCHANGED <<storeVars, cfgVars, trainerVars, actorVars>>

\* faulty variant: "return True" is missing, so the call falls through to
\* "return False"
EvalStop_FallsThrough ==
    /\ e_pc = "stop"
    /\ e_flushed' = (e_flushed \/ e_success)
    /\ e_result' = "false"
    /\ e_pc' = "done"
    /\ UNCHANGED <<e_phase, e_saved_phase, e_count_end, e_env_steps,
                   e_latest_policy_id, e_agent_policy_id, e_loaded,
                   e_evaluate_only, e_success, e_calls,
                   e_entry>>
    /\ UNCHANGED <<storeVars, cfgVars, trainerVars, actorVars>>

\* "if self.should_stop(): self.flush_finished(); ...; return True" and
\* "return False"
EvalStop ==
    /\ e_pc = "stop"
    /\ IF ShouldStop
       THEN /\ e_flushed' = TRUE
            /\ e_result' = "true"
       ELSE /\ e_result' = "false"
            /\ UNCHANGED e_flushed
    /\ e_pc' = "done"
    /\ UNCHANGED <<e_phase, e_saved_phase, e_count_end, e_env_steps,
                   e_latest_policy_id, e_agent_policy_id, e_loaded,
                   e_evaluate_only, e_success, e_calls,
                   e_entry>>
    /\ UNCHANGED <<storeVars, cfgVars, trainerVars, actorVars>>

\* the evaluator's stopping decision is propagated to the store as the
\* end-of-run signal
SignalEndOfRun ==
    /\ e_pc = "done"
    /\ e_result = "true"
    /\ ~end_of_policies
    /\ end_of_policies' = TRUE
    /\ UNCHANGED <<store_version, queue, cfgVars, trainerVars, actorVars, evalVars>>

\* ------------------------------------------------------------------- Next
\* the actors and the trainer
NextTraining ==
    \/ \E a \in Actors : ActorStart(a)
    \/ \E a \in Actors : ActorLoop(a)
    \/ \E a \in Actors : ActorRefresh(a)
    \/ \E a \in Actors : ActorAct(a)
    \/ TrainerStart
    \/ TrainerLoop
    \/ FetchEpisode
    \/ FetchDone
    \/ TrainerTrain
    \/ TrainerSave
    \/ TrainerMark

\* the evaluator
NextEvaluation ==
    \/ EvalStart
    \/ EvalLoop
    \/ EvalRefresh
    \/ EvalEpisode
    \/ EvalPost
    \/ EvalStop
    \/ SignalEndOfRun

Next == NextTraining \/ NextEvaluation

\* a run with one actor, the trainer and the evaluator
Init == InitWith({1}, {1}, {1}, BOOLEAN)
Spec == Init /\ [][Next]_vars

\* one actor and the trainer, over every configuration of the fetch target
\* and the publish threshold
InitTrainer == InitWith(FetchTargets, PublishEverys, {1}, {FALSE})
SpecTrainer == InitTrainer /\ [][NextTraining]_vars

\* two actors and the trainer
InitActors == InitWith({1}, {1}, {1, 2}, {FALSE})
SpecActors == InitActors /\ [][NextTraining]_vars

\* the evaluator alone, no policy being published
InitEvaluator == InitWith({1}, {1}, {}, BOOLEAN)
SpecEvaluator == InitEvaluator /\ [][NextEvaluation]_vars

\* the actors and the evaluator
NextActorEvaluator ==
    \/ \E a \in Actors : ActorStart(a)
    \/ \E a \in Actors : ActorLoop(a)
    \/ \E a \in Actors : ActorRefresh(a)
    \/ \E a \in Actors : ActorAct(a)
    \/ NextEvaluation

\* one actor and the evaluator, no trainer
InitActorEvaluator == InitWith({1}, {1}, {1}, BOOLEAN)
SpecActorEvaluator == InitActorEvaluator /\ [][NextActorEvaluator]_vars

\* the trainer, with no episode to fetch, and the evaluator
NextTrainerEvaluator ==
    \/ TrainerStart
    \/ TrainerLoop
    \/ FetchDone
    \/ TrainerTrain
    \/ TrainerSave
    \/ TrainerMark
    \/ NextEvaluation

\* a trainer that publishes after every training step (fetch target 0,
\* publish threshold 0) and the evaluator, no actor
InitTrainerEvaluator == InitWith({0}, {0}, {}, BOOLEAN)
SpecTrainerEvaluator == InitTrainerEvaluator /\ [][NextTrainerEvaluator]_vars

\* ================================================================= claims
\* the trainer takes the head of the episode channel
FetchStep == t_pc = "fetch" /\ queue # <<>> /\ queue' = Tail(queue)

\* the episodes accepted since the current fetch phase began
AcceptedInPhase == SubSeq(t_memory, t_fetch_entry.mem + 1, Len(t_memory))

\* C1: in the fetch phase an episode whose policy_id equals the trainer's
\* latest_policy_id is stored in memory and its length is added to the fetch
\* accumulator and to the total-steps counter; an episode with any other
\* policy_id is discarded: memory, accumulator and total-steps counter keep
\* their values.
C1_StalenessRejection ==
    [][FetchStep =>
        LET episode == Head(queue)
        IN  IF episode.policy_id = t_latest_policy_id
            THEN /\ t_memory' = Append(t_memory, episode)
                 /\ t_steps' = t_steps + episode.length
                 /\ t_total_steps_counter' = t_total_steps_counter + episode.length
            ELSE /\ t_memory' = t_memory
                 /\ t_steps' = t_steps
                 /\ t_total_steps_counter' = t_total_steps_counter]_vars

\* an on-policy episode was accepted and, after a publish, an episode of an
\* older policy was discarded
C1_Witness ==
    /\ t_latest_policy_id >= 1
    /\ t_ignored >= 1
    /\ Len(t_memory) >= 1
    /\ t_steps >= 1

\* C2: a fetch phase never ends below the target, no episode is taken from
\* the channel once the accepted length has reached the target, and during
\* and after the phase the fetch accumulator, the growth of the total-steps
\* counter and the growth of the EnvironmentSteps counter all equal the sum of
\* the lengths of the episodes accepted in the phase.
C2_FetchTarget ==
    /\ [](t_pc = "train" => t_steps >= num_consecutive_playing_steps)
    /\ [](t_pc \in {"fetch", "train"} =>
            /\ t_steps = SumLen(AcceptedInPhase)
            /\ t_total_steps_counter - t_fetch_entry.total = SumLen(AcceptedInPhase)
            /\ t_env_steps - t_fetch_entry.env = SumLen(AcceptedInPhase)
            /\ AcceptedInPhase # <<>> =>
                 t_steps - AcceptedInPhase[Len(AcceptedInPhase)].length
                   < num_consecutive_playing_steps)
    /\ [][FetchStep => t_steps < num_consecutive_playing_steps]_vars

\* a fetch phase has ended above its target
C2_Witness ==
    /\ t_pc = "train"
    /\ t_steps > num_consecutive_playing_steps
    /\ num_consecutive_playing_steps >= 1
    /\ t_total_steps_counter - t_fetch_entry.total = t_steps
    /\ t_fetch_entry.total >= 1

\* C3: when the train phase of an iteration ends, the trainer goes on to
\* save_policy if and only if total fetched steps minus last_publish_step is
\* at least the publish threshold; a PolicyVersion is saved nowhere else; and
\* when a publish is complete last_publish_step equals the total fetched
\* steps.
C3_PublishCadence ==
    /\ [][(t_pc = "train" /\ t_pc' # "train") =>
            ((t_pc' = "save") <=>
               (t_total_steps_counter - t_last_publish_step >= publish_every))]_vars
    /\ [][store_version' # store_version => (t_pc = "save" /\ t_pc' = "mark")]_vars
    /\ [][(t_pc = "mark" /\ t_pc' # "mark") =>
            t_total_steps_counter' - t_last_publish_step' = 0]_vars

\* two iterations are over, one published and one did not, and the watermark
\* stands at the total
C3_Witness ==
    /\ t_pc = "loop"
    /\ t_training_steps = 2
    /\ store_version = 1
    /\ t_total_steps_counter >= 1
    /\ t_last_publish_step = t_total_steps_counter

\* C4: once the end-of-run signal is set, an actor loop and a trainer loop
\* standing at their loop test leave the loop: the actor starts no new
\* environment step and the trainer starts no new fetch and no new training
\* step.
C4_TerminationPropagation ==
    [][end_of_policies =>
         /\ \A a \in Actors :
              (a_pc[a] = "loop" /\ a_pc'[a] # "loop") => a_pc'[a] = "done"
         /\ (t_pc = "loop" /\ t_pc' # "loop") => t_pc' = "done"]_vars

\* C5: the policy id an actor holds, and tags its episodes with, is the
\* identifier the trainer gave to the PolicyVersion whose weights the actor
\* has loaded: after every successful attempt_load_policy the actor's
\* latest_policy_id and its agent's policy_id equal the identifier of the
\* version it obtained.
C5_TagMatchesLoadedVersion ==
    [][\A a \in Actors :
         (a_pc[a] = "refresh" /\ a_loaded'[a] # a_loaded[a]) =>
            /\ a_latest_policy_id'[a] = a_loaded'[a]
            /\ a_agent_policy_id'[a] = a_loaded'[a]]_vars

\* C6, in the form a finite run decides: an actor catches up only by
\* refreshing its policy, so an actor that has just loaded the newest
\* published PolicyVersion holds the trainer's current latest_policy_id, and
\* the episodes it then generates are accepted as on-policy.
C6_RefreshCatchesUp ==
    [][\A a \in Actors :
         (a_pc[a] = "refresh" /\ a_loaded'[a] # a_loaded[a]
            /\ a_loaded'[a] = t_latest_policy_id)
         => a_agent_policy_id'[a] = t_latest_policy_id]_vars

\* C7: the policy id a role holds never decreases, and each publish of the
\* trainer and each successful attempt_load_policy of an actor or of the
\* evaluator makes it strictly greater.
C7_MonotonicPolicyIds ==
    [][/\ t_latest_policy_id' >= t_latest_policy_id
       /\ (t_pc = "train" /\ t_pc' = "save") => t_latest_policy_id' > t_latest_policy_id
       /\ e_latest_policy_id' >= e_latest_policy_id
       /\ (e_pc = "refresh" /\ e_loaded' # e_loaded) =>
             e_latest_policy_id' > e_latest_policy_id
       /\ \A a \in Actors :
            /\ a_latest_policy_id'[a] >= a_latest_policy_id[a]
            /\ (a_pc[a] = "refresh" /\ a_loaded'[a] # a_loaded[a]) =>
                  a_latest_policy_id'[a] > a_latest_policy_id[a]]_vars

\* the trainer has published twice, the evaluator has loaded twice and the
\* actor once
C7_Witness ==
    /\ t_latest_policy_id = 2
    /\ e_latest_policy_id = 2
    /\ a_latest_policy_id[1] >= 1

\* C8 as stated: whenever the trainer is about to call save_policy, at least
\* one on-policy episode has been accepted since the previous save_policy
\* (or since the start).
C8_NoPublishWithoutNewSteps ==
    t_pc = "save" => t_accepted_since_save >= 1

\* C8 as amended: the same, for a fetch target or a publish threshold of at
\* least one step; and for a fetch target of at least one step no fetch phase
\* ends without an accepted episode.
C8_NoPublishWithoutNewSteps_Configured ==
    /\ (num_consecutive_playing_steps >= 1 \/ publish_every >= 1) =>
         (t_pc = "save" => t_accepted_since_save >= 1)
    /\ (num_consecutive_playing_steps >= 1 /\ t_pc = "train") =>
         AcceptedInPhase # <<>>

\* a second publish is due after a phase that discarded an off-policy
\* episode before it accepted an on-policy one
C8_Witness ==
    /\ t_pc = "save"
    /\ t_latest_policy_id = 2
    /\ t_ignored >= 1
    /\ t_accepted_since_save >= 1
    /\ num_consecutive_playing_steps >= 1

\* C10: when evaluate has returned, it has returned true exactly if
\* should_stop holds, and then flush_finished has run.
C10_EvaluateResult ==
    e_pc = "done" =>
        /\ e_result \in {"true", "false"}
        /\ (e_result = "true") <=> ShouldStop
        /\ (e_result = "true") => e_flushed

\* evaluate has returned true from a call whose loop was ended by the
\* end-of-run signal with budget left
C10_Witness ==
    /\ e_pc = "done"
    /\ e_result = "true"
    /\ e_flushed
    /\ end_of_policies
    /\ e_calls = 2
    /\ e_env_steps < e_count_end

C12_NoPartialEpisode ==
    /\ [][\A a \in Actors :
            (a_pc[a] = "loop" /\ a_pc'[a] = "done") =>
               /\ queue' = queue
               /\ a_ep_len'[a] = a_ep_len[a]]_vars
    /\ [][Len(queue') > Len(queue) =>
            \E a \in Actors :
               /\ a_pc[a] = "act"
               /\ a_ep_len'[a] = 0
               /\ queue' = Append(queue, queue'[Len(queue')])
               /\ queue'[Len(queue')].length = a_ep_len[a] + 1]_vars
    /\ [](\A i \in 1..Len(queue) : queue[i].length >= 1)

\* an actor has left its loop on the end-of-run signal with budget left and
\* an episode in flight, after it had published an episode
C12_Witness ==
    /\ end_of_policies
    /\ a_pc[1] = "done"
    /\ a_env_steps[1] < a_count_end[1]
    /\ a_ep_len[1] >= 1
    /\ Len(queue) = 1

\* a step of an actor
ActorStep == actorVars' # actorVars

\* a step of the evaluator loop
EvaluatorLoopStep ==
    e_pc \in {"loop", "refresh", "episode", "post"} /\ evalVars' # evalVars

\* C13: the published PolicyVersion changes only by the trainer's save_policy
\* step and the publish watermark only by the trainer's step after it; no
\* step of an actor changes either of them or any other trainer state; no
\* step of the evaluator loop changes anything of the store (PolicyVersion,
\* episode channel, end-of-run signal), of the trainer or of an actor: it
\* changes at most the evaluator's loaded policy, policy ids, step counter,
\* run-phase and stopping criterion.
C13_SingleWriter ==
    /\ [][store_version' # store_version => (t_pc = "save" /\ t_pc' = "mark")]_vars
    /\ [][t_last_publish_step' # t_last_publish_step =>
            (t_pc = "mark" /\ t_pc' = "loop")]_vars
    /\ [][ActorStep =>
            UNCHANGED <<store_version, end_of_policies, trainerVars, evalVars>>]_vars
    /\ [][EvaluatorLoopStep =>
            /\ UNCHANGED <<storeVars, cfgVars, trainerVars, actorVars>>
            /\ UNCHANGED <<e_saved_phase, e_count_end, e_evaluate_only, e_result,
                           e_flushed, e_calls>>]_vars

\* the trainer has published, and both the actor and the evaluator have
\* loaded the PolicyVersion and gone on; an episode of the actor is in the
\* channel
C13_Witness ==
    /\ store_version = 1
    /\ t_last_publish_step >= 1
    /\ a_latest_policy_id[1] = 1
    /\ a_pc[1] = "loop"
    /\ e_latest_policy_id = 1
    /\ e_pc = "post"
    /\ Len(queue) >= 1

\* C14: no step lowers a step counter of a role: the actor's and the
\* evaluator's EnvironmentSteps, the trainer's TrainingSteps and
\* EnvironmentSteps and the trainer agent's total of fetched steps never
\* decrease; the trainer's EnvironmentSteps counter never exceeds that total,
\* and when an episode is accepted it is assigned the new total, which is
\* greater than its old value.
C14_MonotonicStepCounters ==
    /\ [][/\ \A a \in Actors : a_env_steps'[a] >= a_env_steps[a]
          /\ e_env_steps' >= e_env_steps
          /\ t_training_steps' >= t_training_steps
          /\ t_env_steps' >= t_env_steps
          /\ t_total_steps_counter' >= t_total_steps_counter]_vars
    /\ [](t_env_steps <= t_total_steps_counter)
    /\ [][(FetchStep /\ Head(queue).policy_id = t_latest_policy_id) =>
            /\ t_env_steps' = t_total_steps_counter'
            /\ t_env_steps' > t_env_steps]_vars

\* the trainer has accepted a second episode, shorter than the total it
\* had, and the actor and the evaluator have both advanced their counters
C14_Witness ==
    /\ t_current_episode = 2
    /\ t_memory[2].length < t_memory[1].length
    /\ t_env_steps = t_total_steps_counter
    /\ a_env_steps[1] > PolicyCheckInterval
    /\ e_env_steps >= 1

\* C15: an actor goes from its loop test into an iteration exactly if its
\* step counter is below count_end and end-of-run is not signalled, and
\* leaves the loop otherwise; an iteration ends with one act call, which
\* advances the EnvironmentSteps counter by at least one and leads back to
\* the loop test, and nothing else advances the counter; so the number of
\* act calls never exceeds the steps taken nor the budget, and inside an
\* iteration the counter is below count_end; with a zero budget no step is
\* taken.  (Each actor is started once, with its counter at 0, so count_end
\* is the budget.)
C15_ActorLoopBound ==
    /\ [][\A a \in Actors :
            /\ (a_pc[a] = "loop" /\ a_pc'[a] # "loop") =>
                  IF a_env_steps[a] < a_count_end[a] /\ ~end_of_policies
                  THEN a_pc'[a] \in {"refresh", "act"}
                  ELSE a_pc'[a] = "done"
            /\ (a_pc[a] = "act" /\ a_pc'[a] # "act") =>
                  /\ a_pc'[a] = "loop"
                  /\ a_acts'[a] = a_acts[a] + 1
                  /\ a_env_steps'[a] >= a_env_steps[a] + 1
            /\ a_env_steps'[a] # a_env_steps[a] => a_pc[a] = "act"]_vars
    /\ [](\A a \in Actors :
            /\ a_acts[a] <= a_env_steps[a]
            /\ a_acts[a] <= a_count_end[a]
            /\ a_pc[a] \in {"refresh", "act"} => a_env_steps[a] < a_count_end[a]
            /\ a_count_end[a] = 0 => a_env_steps[a] = 0)

\* an actor has used up a budget of more than two refresh intervals in three
\* iterations and left its loop, end-of-run not being signalled
C15_Witness ==
    /\ a_pc[1] = "done"
    /\ a_count_end[1] > 2 * PolicyCheckInterval
    /\ a_env_steps[1] >= a_count_end[1]
    /\ a_acts[1] = 3
    /\ ~end_of_policies

\* C16: while the actor loop runs, every window of 200 consecutive
\* environment steps holds a refresh attempt: an actor about to take a step
\* has taken fewer than 200 steps since its last attempt_load_policy (or
\* since it entered the loop); and a refresh is attempted only when the
\* counter stands at a multiple of the interval.
C16_RefreshCadence ==
    /\ [](\A a \in Actors :
            a_pc[a] = "act" =>
               a_env_steps[a] - a_last_attempt[a] < PolicyCheckInterval)
    /\ [](\A a \in Actors :
            a_pc[a] = "refresh" => a_env_steps[a] % PolicyCheckInterval = 0)

\* C17: the evaluator goes from its loop test into an iteration exactly if
\* its counter is below count_end and end-of-run is not signalled, and to the
\* end of evaluate otherwise, so no episode is started after end-of-run was
\* observed; an iteration is one attempt_load_policy, which raises the local
\* policy id by one if it succeeds and leaves it otherwise, then one whole
\* evaluation episode, then the sync, then the loop test again; the policy
\* id and the step counter change nowhere else.
C17_EvaluatorIteration ==
    [][/\ (e_pc = "loop" /\ e_pc' # "loop") =>
             IF e_env_steps < e_count_end /\ ~end_of_policies
             THEN e_pc' = "refresh"
             ELSE e_pc' = "stop"
       /\ (e_pc = "refresh" /\ e_pc' # "refresh") =>
             /\ e_pc' = "episode"
             /\ e_latest_policy_id' =
                  IF store_version > e_loaded THEN e_latest_policy_id + 1
                                              ELSE e_latest_policy_id
             /\ e_agent_policy_id' = e_latest_policy_id'
       /\ (e_pc = "episode" /\ e_pc' # "episode") =>
             /\ e_pc' = "post"
             /\ e_env_steps' >= e_env_steps + 1
       /\ (e_pc = "post" /\ e_pc' # "post") => e_pc' = "loop"
       /\ e_latest_policy_id' # e_latest_policy_id => e_pc = "refresh"
       /\ e_env_steps' # e_env_steps => e_pc = "episode"]_vars

\* the evaluator, in its second evaluate call, has ended an episode; one of
\* its attempts loaded a policy, and a newer one has been published since
C17_Witness ==
    /\ e_pc = "post"
    /\ e_calls = 2
    /\ e_latest_policy_id = 1
    /\ e_loaded = 1
    /\ store_version = 2
    /\ e_env_steps >= 2

\* C18: in an evaluation-only worker the run-phase is TEST when an evaluation
\* episode has run and until the sync after it is done; when an iteration
\* ends, the run-phase is the one that was in effect when the iteration
\* began; and when evaluate has left its loop or returned, the run-phase is
\* the one that was in effect when evaluate was called.
C18_PhaseRestoration ==
    /\ []((e_evaluate_only /\ e_pc = "post") => e_phase = "TEST")
    /\ [][(e_evaluate_only /\ e_pc = "post" /\ e_pc' = "loop") =>
            e_phase' = e_entry.iter]_vars
    /\ [](e_pc \in {"stop", "done"} => e_phase = e_entry.call)

\* save_policy calls made so far: every one is followed by one call of
\* occasionally_save_checkpoint
SavePolicyCalls == t_checkpoints + (IF t_pc = "mark" THEN 1 ELSE 0)

\* C19: the trainer's latest_policy_id equals the number of save_policy calls
\* made so far, plus one exactly while an increment awaits its save_policy;
\* the saves never outnumber the loop iterations; a publish raises the id by
\* exactly one before save_policy, which saves the PolicyVersion under that
\* id; and the checkpoint call and the watermark assignment happen only in
\* the step after save_policy.
C19_PublishBookkeeping ==
    /\ [](t_latest_policy_id = SavePolicyCalls + (IF t_pc = "save" THEN 1 ELSE 0))
    /\ [](SavePolicyCalls <= t_training_steps)
    /\ [](store_version = SavePolicyCalls)
    /\ [][/\ (t_pc' = "save" /\ t_pc # "save") =>
                /\ t_pc = "train"
                /\ t_latest_policy_id' = t_latest_policy_id + 1
          /\ t_latest_policy_id' # t_latest_policy_id => t_pc' = "save"
          /\ (t_pc = "save" /\ t_pc' # "save") =>
                /\ t_pc' = "mark"
                /\ store_version' = t_latest_policy_id
          /\ (t_checkpoints' # t_checkpoints \/ t_last_publish_step' # t_last_publish_step)
                => (t_pc = "mark" /\ t_pc' = "loop")]_vars

\* the second publish is under way: the first is complete, the id is
\* incremented again and save_policy is still to be called
C19_Witness ==
    /\ t_pc = "save"
    /\ t_latest_policy_id = 2
    /\ store_version = 1
    /\ t_checkpoints = 1

\* C20: the trainer reaches its train call only from a fetch phase that has
\* reached its target; its latest_policy_id changes only in the step that
\* makes the train call, after the call, so not from the start of the fetch
\* phase up to the train call; and during the fetch phase and at the train
\* call every episode accepted in the phase carries the trainer's
\* latest_policy_id.
C20_SingleVersionBatch ==
    /\ [][(t_pc' = "train" /\ t_pc # "train") =>
            (t_pc = "fetch" /\ t_steps >= num_consecutive_playing_steps)]_vars
    /\ [][t_latest_policy_id' # t_latest_policy_id => t_pc = "train"]_vars
    /\ [](t_pc \in {"fetch", "train"} =>
            \A i \in 1..Len(AcceptedInPhase) :
               AcceptedInPhase[i].policy_id = t_latest_policy_id)

\* a train call is due on a batch accepted under PolicyVersion 1, after the
\* fetch phase discarded an episode of the older policy; memory still holds
\* an episode of that older policy from the iteration before
C20_Witness ==
    /\ t_pc = "train"
    /\ t_latest_policy_id = 1
    /\ t_ignored >= 1
    /\ AcceptedInPhase # <<>>
    /\ Len(t_memory) > Len(AcceptedInPhase)

====
